---- MODULE Spec2Model ----
(***************************************************************************)
(* Model of cache.py (libcommon): HashsetCache, HashmapCache,              *)
(* SizedHashmapCache and SizedLRUCache.  One cache instance is modelled:   *)
(* it is constructed by one of the __init__ actions and then driven by an  *)
(* arbitrary sequence of check/insert/get/remove/clear calls.              *)
(*                                                                         *)
(* A dict / OrderedDict is a sequence of entries [k, v] with distinct      *)
(* keys, oldest first.  A set is a set of keys.  Python's None is the      *)
(* value None.                                                             *)
(***************************************************************************)
EXTENDS Integers, Sequences, FiniteSets, TLC

\* ---- bounds ----
NumKeys == 3
MaxVal == 1
MaxLimit == 2
MaxSeed == 2
MinLimit == 0 - 1
MaxSteps == 4

None == 0
NoLimit == 0

KeySet == 1..NumKeys
ValueSet == None..MaxVal
LimitArgs == MinLimit..MaxLimit

MapKinds == {"HashmapCache", "SizedHashmapCache", "SizedLRUCache"}
SizedKinds == {"SizedHashmapCache", "SizedLRUCache"}
ConcreteKinds == MapKinds \cup {"HashsetCache"}

VARIABLES
    kind,      \* class of the instance ("None" before construction)
    status,    \* "new" | "ok" | "failed" : outcome of __init__
    limit,     \* self.limit (NoLimit while the slot is unset)
    store,     \* self._store of the map caches
    sstore,    \* self._store of HashsetCache
    ctor,      \* what __init__ was called with: the limit, and whether the
               \* seed store held at most limit entries
    op,        \* the last call: [name, key, value]
    pre,       \* self._store (map) at entry of the last call
    spre,      \* self._store (set) at entry of the last call
    ret,       \* value returned by the last call
    err,       \* exception raised by the last call ("none" if it returned)
    prev,      \* the move_to_end done by the call before the last one, if any
    ref        \* the recency stamps of a reference LRU run beside the cache

vars == <<kind, status, limit, store, sstore, ctor, op, pre, spre, ret, err, prev, ref>>

\* ---- dict / OrderedDict primitives ----
Entry(k, v) == [k |-> k, v |-> v]

StoreKeys(s) == {s[i].k : i \in DOMAIN s}

\* key in d
Contains(s, k) == \E i \in DOMAIN s : s[i].k = k

IndexOf(s, k) == CHOOSE i \in DOMAIN s : s[i].k = k

\* d.get(key)
DictGet(s, k) == IF Contains(s, k) THEN s[IndexOf(s, k)].v ELSE None

\* d[key] = value : an existing key keeps its position, a new key goes last
DictSet(s, k, v) ==
    IF Contains(s, k) THEN [s EXCEPT ![IndexOf(s, k)] = Entry(k, v)]
    ELSE Append(s, Entry(k, v))

\* del d[key]
DictDel(s, k) == SelectSeq(s, LAMBDA e : e.k # k)

\* mutant: popitem() with the default last=True
PopLast(s) == SubSeq(s, 1, Len(s) - 1)

\* d.popitem(last=False) on a non-empty OrderedDict
PopFirst(s) == Tail(s)

\* mutant: move_to_end(key, last=False)
MoveToFront(s, k) == <<Entry(k, DictGet(s, k))>> \o DictDel(s, k)

\* d.move_to_end(key)
MoveToEnd(s, k) == Append(DictDel(s, k), Entry(k, DictGet(s, k)))

\* ---- seed stores a caller can supply ----
RECURSIVE SeqsUpTo(_)
SeqsUpTo(n) ==
    IF n = 0 THEN {<<>>}
    ELSE LET shorter == SeqsUpTo(n - 1)
         IN shorter \cup
            {Append(s, Entry(k, v)) : s \in {t \in shorter : Len(t) = n - 1},
                                      k \in KeySet, v \in ValueSet}

Distinct(s) == \A i, j \in DOMAIN s : i # j => s[i].k # s[j].k

SeedStores == {s \in SeqsUpTo(MaxSeed) : Distinct(s)}
SeedSets == {S \in SUBSET KeySet : Cardinality(S) <= MaxSeed}

\* store=None: the store is the one _gen_store() makes
GenSet == {}
GenDict == <<>>

\* ---- the methods, as functions of the store ----
\* Cache._gen_store
CacheGenStoreErr == "NotImplementedError"
\* mutant: clear is an empty method instead of a raise
CacheCallErrSilentClear(n) == IF n = "clear" THEN "none" ELSE "NotImplementedError"
\* Cache.check, insert, get, remove, clear, iter
CacheCallErr(n) == "NotImplementedError"

HashsetInsertStore(S, k) == S \cup {k}
HashsetGetRet(S, k) == IF k \in S THEN k ELSE None
\* mutant: the discard is left out
HashsetRemoveStoreKeep(S, k) == S
HashsetRemoveStore(S, k) == IF k \in S THEN S \ {k} ELSE S
HashsetRemoveRet(S, k) == IF k \in S THEN k ELSE None

HashsetClearStore(S) == {}
\* the items the generator yields, in any order
HashsetIterItems(S) == S

HashmapInsertStore(s, k, v) == DictSet(s, k, v)
HashmapGetRet(s, k) == DictGet(s, k)
\* mutant: a hit moves the key to the newest end, as SizedLRUCache.get does
HashmapGetStoreMove(s, k) ==
    IF Contains(s, k) THEN Append(DictDel(s, k), Entry(k, DictGet(s, k))) ELSE s
\* dict.get leaves the dict as it is
HashmapGetStore(s, k) == s
\* mutant: deletes the oldest entry instead of the entry of key
HashmapRemoveStoreFirst(s, k) == IF Contains(s, k) THEN Tail(s) ELSE s
HashmapRemoveStore(s, k) == IF Contains(s, k) THEN DictDel(s, k) ELSE s
\* mutant: reads the value after the del
HashmapRemoveRetAfter(s, k) == IF Contains(s, k) THEN DictGet(DictDel(s, k), k) ELSE None
HashmapRemoveRet(s, k) == IF Contains(s, k) THEN DictGet(s, k) ELSE None

\* mutant: popitem instead of clear
HashmapClearStoreOne(s) == IF s = <<>> THEN s ELSE Tail(s)
HashmapClearStore(s) == <<>>
\* the (key, value) items the generator yields, in the order of the dict
HashmapIterItems(s) == [i \in DOMAIN s |-> <<s[i].k, s[i].v>>]

\* mutant: evicts one insert too late
SizedEvictsLate(s, lim) == Len(s) = lim + 1
\* mutant: evicts one insert too early
SizedEvictsEarly(s, lim) == Len(s) = lim - 1
\* mutant: len >= limit instead of len == limit
SizedEvictsFrom(s, lim) == Len(s) >= lim
\* mutant: len <= limit instead of len == limit
SizedEvictsUpTo(s, lim) == Len(s) <= lim

\* SizedHashmapCache.insert: the popitem runs whenever len == limit
SizedEvicts(s, lim) == Len(s) = lim
SizedInsertErr(s, lim) == IF SizedEvicts(s, lim) /\ s = <<>> THEN "KeyError" ELSE "none"
\* mutant: a full store is emptied instead of losing one entry
SizedInsertStoreFlush(s, lim, k, v) ==
    DictSet(IF Len(s) = lim THEN <<>> ELSE s, k, v)
\* mutant: the assignment sits in an else branch of the eviction test
SizedInsertStoreEither(s, lim, k, v) ==
    IF Len(s) = lim THEN Tail(s) ELSE DictSet(s, k, v)
SizedInsertStore(s, lim, k, v) ==
    IF SizedInsertErr(s, lim) # "none" THEN s
    ELSE DictSet(IF SizedEvicts(s, lim) THEN PopFirst(s) ELSE s, k, v)

\* mutant: the hit does not move the key
LRUGetStoreNoMove(s, k) == s

\* SizedLRUCache.get
LRUGetStore(s, k) == IF Contains(s, k) THEN MoveToEnd(s, k) ELSE s
LRUGetRet(s, k) == IF Contains(s, k) THEN DictGet(s, k) ELSE None

\* ---- state machine ----
NoOp == [name |-> "none", key |-> None, value |-> None]
Call(n, k, v) == [name |-> n, key |-> k, value |-> v]

\* What the last call's move_to_end did: the key it moved to the newest end,
\* the position it moved it from and the value it returned.
NoPrev == [key |-> None, idx |-> 0, val |-> None]
Promotion ==
    IF kind = "SizedLRUCache" /\ op.name = "get" /\ Contains(pre, op.key)
    THEN [key |-> op.key, idx |-> IndexOf(pre, op.key), val |-> ret]
    ELSE NoPrev

\* The reference model: every present key carries the step of its latest
\* recency event, a hit of get on the key or an insert of the key when it was
\* not present; stamp holds the stamps now, was the stamps before the last
\* call.  It runs only where it is switched on, and for MaxSteps calls.
NoStamps == [k \in {} |-> 0]
RefOff == [on |-> FALSE, clock |-> 0, stamp |-> NoStamps, was |-> NoStamps]
RefOn == [on |-> TRUE, clock |-> 0, stamp |-> NoStamps, was |-> NoStamps]

RecencyEvent(o, before, k) ==
    /\ o.key = k
    /\ \/ o.name = "get" /\ Contains(before, k)
       \/ o.name = "insert" /\ ~Contains(before, k)

RefStep(r, o, before, after) ==
    IF ~r.on THEN r
    ELSE [on |-> TRUE,
          clock |-> r.clock + 1,
          stamp |-> [k \in StoreKeys(after) |->
                        IF RecencyEvent(o, before, k) THEN r.clock + 1
                        ELSE r.stamp[k]],
          was |-> r.stamp]

InitBase ==
    /\ kind = "None"
    /\ status = "new"
    /\ limit = NoLimit
    /\ store = <<>>
    /\ sstore = {}
    /\ ctor = [limit |-> NoLimit, seedFits |-> TRUE]
    /\ op = NoOp
    /\ pre = <<>>
    /\ spre = {}
    /\ ret = None
    /\ err = "none"
    /\ prev = NoPrev

Init == InitBase /\ ref = RefOff

InitRef == InitBase /\ ref = RefOn

\* Cache.__init__ on the base class: without a store (given = FALSE) the store
\* comes from Cache._gen_store, which raises before self._store is bound
NewCache(givens, seeds) ==
    /\ status = "new"
    /\ \E given \in givens, s \in seeds :
        IF given
        THEN /\ store' = s
             /\ pre' = s
             /\ status' = "ok"
             /\ err' = "none"
        ELSE /\ UNCHANGED <<store, pre>>
             /\ status' = "failed"
             /\ err' = CacheGenStoreErr
    /\ kind' = "Cache"
    /\ ctor' = [limit |-> NoLimit, seedFits |-> TRUE]
    /\ op' = Call("__init__", None, None)
    /\ ret' = None
    /\ UNCHANGED <<limit, sstore, spre, prev, ref>>

\* Cache.__init__ as inherited by HashsetCache
NewHashsetCache(seeds) ==
    /\ status = "new"
    /\ \E S \in seeds :
        /\ sstore' = S
        /\ spre' = S
        /\ ctor' = [limit |-> NoLimit, seedFits |-> TRUE]
    /\ kind' = "HashsetCache"
    /\ status' = "ok"
    /\ op' = Call("__init__", None, None)
    /\ ret' = None
    /\ err' = "none"
    /\ UNCHANGED <<limit, store, pre, prev, ref>>

\* Cache.__init__ as inherited by HashmapCache
NewHashmapCache(seeds) ==
    /\ status = "new"
    /\ \E s \in seeds :
        /\ store' = s
        /\ pre' = s
        /\ ctor' = [limit |-> NoLimit, seedFits |-> TRUE]
    /\ kind' = "HashmapCache"
    /\ status' = "ok"
    /\ op' = Call("__init__", None, None)
    /\ ret' = None
    /\ err' = "none"
    /\ UNCHANGED <<limit, sstore, spre, prev, ref>>

\* SizedHashmapCache.__init__ (also SizedLRUCache's)
\* mutant: limit < 0 instead of limit <= 0
SizedInitOkZero(lim) == lim >= 0
SizedInitOk(lim) == lim > 0

NewSized(cls, seeds) ==
    /\ status = "new"
    /\ \E lim \in LimitArgs, s \in seeds :
        /\ store' = s
        /\ pre' = s
        /\ ctor' = [limit |-> lim, seedFits |-> (Len(s) <= lim)]
        /\ IF SizedInitOk(lim)
           THEN /\ limit' = lim
                /\ status' = "ok"
                /\ err' = "none"
           ELSE /\ limit' = NoLimit
                /\ status' = "failed"
                /\ err' = "ValueError"
    /\ kind' = cls
    /\ op' = Call("__init__", None, None)
    /\ ret' = None
    /\ UNCHANGED <<sstore, spre, prev, ref>>

NewSizedHashmapCache(seeds) == NewSized("SizedHashmapCache", seeds)
NewSizedLRUCache(seeds) == NewSized("SizedLRUCache", seeds)

Frame ==
    /\ UNCHANGED <<kind, status, limit, ctor>>
    /\ prev' = Promotion
    /\ ref.on => ref.clock < MaxSteps
    /\ ref' = RefStep(ref, op', pre', store')

\* a method of the base class Cache
CacheCall(n, keys, values) ==
    /\ status = "ok" /\ kind = "Cache"
    /\ \E k \in keys, v \in values : op' = Call(n, k, v)
    /\ err' = CacheCallErr(n)
    /\ pre' = store
    /\ ret' = None
    /\ UNCHANGED <<store, sstore, spre>> /\ Frame

CacheCheck == CacheCall("check", KeySet, {None})
CacheInsert == CacheCall("insert", KeySet, ValueSet)
CacheGet == CacheCall("get", KeySet, {None})
CacheRemove == CacheCall("remove", KeySet, {None})
CacheClear == CacheCall("clear", {None}, {None})
CacheIter == CacheCall("iter", {None}, {None})

\* HashsetCache.check
HashsetCheck ==
    /\ status = "ok" /\ kind = "HashsetCache"
    /\ \E k \in KeySet :
        /\ op' = Call("check", k, None)
        /\ ret' = (k \in sstore)
    /\ spre' = sstore
    /\ err' = "none"
    /\ UNCHANGED <<store, pre, sstore>> /\ Frame

\* HashsetCache.insert
HashsetInsert ==
    /\ status = "ok" /\ kind = "HashsetCache"
    /\ \E k \in KeySet, v \in ValueSet :
        /\ op' = Call("insert", k, v)
        /\ sstore' = HashsetInsertStore(sstore, k)
    /\ spre' = sstore
    /\ ret' = None
    /\ err' = "none"
    /\ UNCHANGED <<store, pre>> /\ Frame

\* HashsetCache.get
HashsetGet ==
    /\ status = "ok" /\ kind = "HashsetCache"
    /\ \E k \in KeySet :
        /\ op' = Call("get", k, None)
        /\ ret' = HashsetGetRet(sstore, k)
    /\ spre' = sstore
    /\ err' = "none"
    /\ UNCHANGED <<store, pre, sstore>> /\ Frame

\* HashsetCache.remove
HashsetRemove ==
    /\ status = "ok" /\ kind = "HashsetCache"
    /\ \E k \in KeySet :
        /\ op' = Call("remove", k, None)
        /\ sstore' = HashsetRemoveStore(sstore, k)
        /\ ret' = HashsetRemoveRet(sstore, k)
    /\ spre' = sstore
    /\ err' = "none"
    /\ UNCHANGED <<store, pre>> /\ Frame

\* HashsetCache.clear
HashsetClear ==
    /\ status = "ok" /\ kind = "HashsetCache"
    /\ op' = Call("clear", None, None)
    /\ sstore' = HashsetClearStore(sstore)
    /\ spre' = sstore
    /\ ret' = None
    /\ err' = "none"
    /\ UNCHANGED <<store, pre>> /\ Frame

\* HashsetCache.iter, run to exhaustion
HashsetIter ==
    /\ status = "ok" /\ kind = "HashsetCache"
    /\ op' = Call("iter", None, None)
    /\ ret' = HashsetIterItems(sstore)
    /\ spre' = sstore
    /\ err' = "none"
    /\ UNCHANGED <<store, pre, sstore>> /\ Frame

\* HashmapCache.check (inherited by the sized caches)
HashmapCheck ==
    /\ status = "ok" /\ kind \in MapKinds
    /\ \E k \in KeySet :
        /\ op' = Call("check", k, None)
        /\ ret' = Contains(store, k)
    /\ pre' = store
    /\ err' = "none"
    /\ UNCHANGED <<store, sstore, spre>> /\ Frame

\* HashmapCache.insert
HashmapInsert ==
    /\ status = "ok" /\ kind = "HashmapCache"
    /\ \E k \in KeySet, v \in ValueSet :
        /\ op' = Call("insert", k, v)
        /\ store' = HashmapInsertStore(store, k, v)
    /\ pre' = store
    /\ ret' = None
    /\ err' = "none"
    /\ UNCHANGED <<sstore, spre>> /\ Frame

\* HashmapCache.get (inherited by SizedHashmapCache)
HashmapGet ==
    /\ status = "ok" /\ kind \in {"HashmapCache", "SizedHashmapCache"}
    /\ \E k \in KeySet :
        /\ op' = Call("get", k, None)
        /\ store' = HashmapGetStore(store, k)
        /\ ret' = HashmapGetRet(store, k)
    /\ pre' = store
    /\ err' = "none"
    /\ UNCHANGED <<sstore, spre>> /\ Frame

\* HashmapCache.remove (inherited by the sized caches)
HashmapRemove ==
    /\ status = "ok" /\ kind \in MapKinds
    /\ \E k \in KeySet :
        /\ op' = Call("remove", k, None)
        /\ store' = HashmapRemoveStore(store, k)
        /\ ret' = HashmapRemoveRet(store, k)
    /\ pre' = store
    /\ err' = "none"
    /\ UNCHANGED <<sstore, spre>> /\ Frame

\* HashmapCache.clear (inherited by the sized caches)
HashmapClear ==
    /\ status = "ok" /\ kind \in MapKinds
    /\ op' = Call("clear", None, None)
    /\ store' = HashmapClearStore(store)
    /\ pre' = store
    /\ ret' = None
    /\ err' = "none"
    /\ UNCHANGED <<sstore, spre>> /\ Frame

\* HashmapCache.iter (inherited by the sized caches), run to exhaustion
HashmapIter ==
    /\ status = "ok" /\ kind \in MapKinds
    /\ op' = Call("iter", None, None)
    /\ ret' = HashmapIterItems(store)
    /\ pre' = store
    /\ err' = "none"
    /\ UNCHANGED <<store, sstore, spre>> /\ Frame

\* SizedHashmapCache.insert (inherited by SizedLRUCache)
SizedInsert ==
    /\ status = "ok" /\ kind \in SizedKinds
    /\ \E k \in KeySet, v \in ValueSet :
        /\ op' = Call("insert", k, v)
        /\ store' = SizedInsertStore(store, limit, k, v)
    /\ err' = SizedInsertErr(store, limit)
    /\ pre' = store
    /\ ret' = None
    /\ UNCHANGED <<sstore, spre>> /\ Frame

\* SizedLRUCache.get
LRUGet ==
    /\ status = "ok" /\ kind = "SizedLRUCache"
    /\ \E k \in KeySet :
        /\ op' = Call("get", k, None)
        /\ store' = LRUGetStore(store, k)
        /\ ret' = LRUGetRet(store, k)
    /\ pre' = store
    /\ err' = "none"
    /\ UNCHANGED <<sstore, spre>> /\ Frame

\* the calls on a constructed instance
Calls ==
    \/ HashsetCheck
    \/ HashsetInsert
    \/ HashsetGet
    \/ HashsetRemove
    \/ HashsetClear
    \/ HashsetIter
    \/ HashmapCheck
    \/ HashmapInsert
    \/ HashmapGet
    \/ HashmapRemove
    \/ HashmapClear
    \/ HashmapIter
    \/ SizedInsert
    \/ LRUGet

\* the calls on an instance of the base class
BaseCalls ==
    \/ CacheCheck
    \/ CacheInsert
    \/ CacheGet
    \/ CacheRemove
    \/ CacheClear
    \/ CacheIter

Next ==
    \/ NewCache(BOOLEAN, SeedStores)
    \/ NewHashsetCache(SeedSets \cup {GenSet})
    \/ NewHashmapCache(SeedStores \cup {GenDict})
    \/ NewSizedHashmapCache(SeedStores \cup {GenDict})
    \/ NewSizedLRUCache(SeedStores \cup {GenDict})
    \/ Calls
    \/ BaseCalls

\* the same program when every instance is constructed with store=None, so
\* that every entry of the store was put there by insert (the base class
\* cannot be constructed that way, so none of its methods is ever called)
NextNoSeed ==
    \/ NewCache({FALSE}, {GenDict})
    \/ NewHashsetCache({GenSet})
    \/ NewHashmapCache({GenDict})
    \/ NewSizedHashmapCache({GenDict})
    \/ NewSizedLRUCache({GenDict})
    \/ Calls

Spec == Init /\ [][Next]_vars

SpecNoSeed == Init /\ [][NextNoSeed]_vars

\* a SizedLRUCache started empty and driven by insert, get, remove and clear,
\* with the reference model running beside it
NextRef ==
    \/ NewSizedLRUCache({GenDict})
    \/ SizedInsert
    \/ LRUGet
    \/ HashmapRemove
    \/ HashmapClear

SpecRef == InitRef /\ [][NextRef]_vars

\* ---- properties ----
\* a comes before b in the order of s
Before(s, a, b) == IndexOf(s, a) < IndexOf(s, b)

\* the last call was op on a successfully constructed instance
Did(n) == status = "ok" /\ op.name = n

\* the last call was insert on a bounded cache whose store was full
FullInsert == Did("insert") /\ kind \in SizedKinds /\ Len(pre) = limit

\* C1: a bounded cache constructed empty or with a seed store of at most
\* limit entries never holds more than limit entries, whatever is called.
C1_CapacityInvariant ==
    (status = "ok" /\ kind \in SizedKinds /\ ctor.seedFits) => Len(store) <= limit

C1_Witness ==
    /\ FullInsert /\ ctor.seedFits
    /\ ~Contains(pre, op.key)
    /\ Len(store) = limit

\* C2: insert of a key that is already present into a full bounded cache
\* leaves the size at limit, removes no key, and get(k) returns the new value.
C2_OverwriteDoesNotEvict ==
    (FullInsert /\ Contains(pre, op.key)) =>
        /\ Len(store) = limit
        /\ StoreKeys(pre) \subseteq StoreKeys(store)
        /\ DictGet(store, op.key) = op.value

\* C3: insert of a new key into a full SizedHashmapCache removes the oldest
\* key k0, holds the new key, and keeps k1..k_{C-1} with their values.
C3_FifoEviction ==
    (FullInsert /\ kind = "SizedHashmapCache" /\ ~Contains(pre, op.key)) =>
        /\ ~Contains(store, pre[1].k)
        /\ Contains(store, op.key)
        /\ \A i \in 2..Len(pre) :
            Contains(store, pre[i].k) /\ DictGet(store, pre[i].k) = pre[i].v

C3_Witness ==
    /\ FullInsert /\ kind = "SizedHashmapCache" /\ limit >= 2
    /\ ~Contains(pre, op.key)
    /\ ~Contains(store, pre[1].k)
    /\ Contains(store, pre[2].k)

\* The last two calls were get(k0), a hit on the oldest key of a full
\* SizedLRUCache, and then insert of a key that was not present.  At entry of
\* the insert the store is k1, .., k_{C-1}, k0.
GetOldestThenInsertNew ==
    /\ FullInsert /\ kind = "SizedLRUCache"
    /\ prev.idx = 1
    /\ ~Contains(pre, op.key)

PromotionOutcome ==
    /\ Contains(store, prev.key)
    /\ DictGet(store, prev.key) = prev.val
    /\ Len(pre) >= 2 => ~Contains(store, pre[1].k)
    /\ \A i \in 2..(Len(pre) - 1) : Contains(store, pre[i].k)
    /\ Contains(store, op.key)

\* C4 as stated, for every limit C > 0: after get(k0) and the insert of a new
\* key, k0 is present with its value, k1 is absent, the others are present.
C4_LruPromotionAnyLimit == GetOldestThenInsertNew => PromotionOutcome

\* C4 as amended: the same for every limit C >= 2.
C4_LruPromotion == (GetOldestThenInsertNew /\ limit >= 2) => PromotionOutcome

C4_Witness ==
    /\ GetOldestThenInsertNew /\ limit >= 2
    /\ Contains(store, prev.key)
    /\ ~Contains(store, pre[1].k)

\* C5: insert of a key that is already present keeps the key where it was in
\* the order, relative to every other key that is present.
C5_InsertKeepsPosition ==
    (Did("insert") /\ kind \in SizedKinds /\ Contains(pre, op.key)) =>
        /\ Contains(store, op.key)
        /\ \A j \in StoreKeys(store) \ {op.key} :
            /\ Contains(pre, j)
            /\ Before(pre, op.key, j) <=> Before(store, op.key, j)

\* insert of a new key into a full store removes exactly the oldest entry, and
\* no insert shrinks the store by more than one entry
EvictsOldestOnly ==
    /\ (Len(pre) = limit /\ ~Contains(pre, op.key)) =>
        /\ StoreKeys(pre) \ StoreKeys(store) = {pre[1].k}
        /\ Len(store) = Len(pre)
    /\ Len(store) >= Len(pre) - 1

\* C6 as stated: insert into a full store removes exactly one entry, the
\* oldest; no insert shrinks the store by more than one; and after every insert
\* the size is at most limit.
C6_SingleEvictionAnySeed ==
    (Did("insert") /\ kind \in SizedKinds) =>
        (EvictsOldestOnly /\ Len(store) <= limit)

\* C6 as amended: the size is at most limit after every insert when the cache
\* was constructed empty or with a seed store of at most limit entries.
C6_SingleEviction ==
    (Did("insert") /\ kind \in SizedKinds) =>
        (EvictsOldestOnly /\ (ctor.seedFits => Len(store) <= limit))

C6_Witness ==
    /\ FullInsert /\ kind = "SizedLRUCache" /\ limit >= 2
    /\ ~Contains(pre, op.key)
    /\ StoreKeys(pre) \ StoreKeys(store) = {pre[1].k}
    /\ Len(store) = limit

\* C7: __init__ of a bounded cache with limit <= 0 raises ValueError and the
\* instance is never used, with or without a seed store; with limit > 0 it
\* succeeds and self.limit is the given limit in every later state.
C7_Construction ==
    kind \in SizedKinds =>
        /\ ctor.limit <= 0 =>
            /\ status = "failed" /\ err = "ValueError"
            /\ op.name = "__init__"
            /\ limit = NoLimit
        /\ ctor.limit > 0 => (status = "ok" /\ limit = ctor.limit)

C7_Witness ==
    /\ kind \in SizedKinds /\ status = "failed"
    /\ ctor.limit <= 0
    /\ store # <<>>

\* C8: on a constructed instance no call raises; the popitem of the bounded
\* insert never runs on an empty store; get and remove of an absent key return
\* None and leave the store as it was.
C8_NoOperationFails ==
    (status = "ok" /\ kind \in ConcreteKinds) =>
        /\ err = "none"
        /\ (op.name = "insert" /\ kind \in SizedKinds /\ SizedEvicts(pre, limit))
              => pre # <<>>
        /\ (op.name \in {"get", "remove"} /\ kind \in MapKinds /\ ~Contains(pre, op.key))
              => (ret = None /\ store = pre)
        /\ (op.name \in {"get", "remove"} /\ kind = "HashsetCache" /\ op.key \notin spre)
              => (ret = None /\ sstore = spre)

C8_Witness ==
    /\ FullInsert /\ limit = 1
    /\ err = "none"
    /\ Len(store) = 1 /\ store[1].k = op.key
    /\ pre[1].k # op.key

\* every key that was present still has the value get returned for it before
\* the last call, unless that call is one of the exempted ones
KeptValues(clearExempt) ==
    \A k \in KeySet :
        (/\ Contains(pre, k)
         /\ ~(op.name \in {"insert", "remove"} /\ op.key = k)
         /\ ~(clearExempt /\ op.name = "clear"))
            => HashmapGetRet(store, k) = HashmapGetRet(pre, k)

\* C9 as stated: in a HashmapCache get(k) keeps returning the inserted value
\* across every call other than insert(k, _) and remove(k).
C9_ValueStableButInsertRemove ==
    (status = "ok" /\ kind = "HashmapCache" /\ op.name # "__init__")
        => KeptValues(FALSE)

\* C9 as amended: across every call other than insert(k, _), remove(k) and
\* clear().
C9_ValueStable ==
    (status = "ok" /\ kind = "HashmapCache" /\ op.name # "__init__")
        => KeptValues(TRUE)

C9_Witness ==
    /\ Did("remove") /\ kind = "HashmapCache"
    /\ Contains(pre, op.key)
    /\ \E j \in KeySet \ {op.key} :
        /\ Contains(pre, j) /\ DictGet(pre, j) # None
        /\ HashmapGetRet(store, j) = DictGet(pre, j)

\* C10: remove(k) on a map cache returns the value of k and leaves k absent
\* when k was present, returns None and changes nothing when it was absent;
\* every other entry keeps its value and the others keep their relative order.
C10_Remove ==
    (Did("remove") /\ kind \in MapKinds) =>
        /\ IF Contains(pre, op.key)
           THEN ret = DictGet(pre, op.key) /\ ~Contains(store, op.key)
           ELSE ret = None /\ store = pre
        /\ StoreKeys(store) = StoreKeys(pre) \ {op.key}
        /\ \A a \in StoreKeys(store) : DictGet(store, a) = DictGet(pre, a)
        /\ \A a, b \in StoreKeys(store) : Before(store, a, b) <=> Before(pre, a, b)

C10_Witness ==
    /\ Did("remove") /\ kind \in MapKinds
    /\ Len(pre) = 3 /\ pre[2].k = op.key
    /\ ret # None
    /\ Len(store) = 2

\* C11: after clear() check(k) is false for every key and iter() yields
\* nothing, in every variant and also when the store was already empty (a
\* second clear() leaves the state of the first); a bounded cache keeps its
\* limit.
C11_Clear ==
    Did("clear") =>
        /\ kind = "HashsetCache" =>
            /\ \A k \in KeySet : k \notin sstore
            /\ HashsetIterItems(sstore) = {}
            /\ spre = {} => sstore = spre
        /\ kind \in MapKinds =>
            /\ \A k \in KeySet : ~Contains(store, k)
            /\ HashmapIterItems(store) = <<>>
            /\ pre = <<>> => store = pre
        /\ kind \in SizedKinds => limit = ctor.limit

C11_Witness ==
    /\ Did("clear") /\ kind \in SizedKinds
    /\ Len(pre) = limit /\ limit >= 2
    /\ store = <<>>

\* C12: in a HashsetCache k is present after insert(k, v) for every v and
\* absent after remove(k); get(k) returns k when k is present and None
\* otherwise, and so does remove(k); insert(k) and remove(k) leave the
\* membership of every other key as it was.
C12_HashsetMembership ==
    (status = "ok" /\ kind = "HashsetCache") =>
        /\ op.name = "insert" => op.key \in sstore
        /\ op.name = "remove" => op.key \notin sstore
        /\ op.name \in {"get", "remove"} =>
            ret = (IF op.key \in spre THEN op.key ELSE None)
        /\ op.name \in {"insert", "remove"} =>
            \A j \in KeySet \ {op.key} : (j \in sstore) <=> (j \in spre)

C12_Witness ==
    /\ Did("remove") /\ kind = "HashsetCache"
    /\ op.key \in spre
    /\ ret = op.key
    /\ sstore # {}

\* C13: check in every variant, and get in HashsetCache, HashmapCache and
\* SizedHashmapCache, leave keys, values and order as they were; after a get
\* on a full SizedHashmapCache the insert of any new key still evicts the
\* oldest-inserted key and keeps the others.
C13_ReadsKeepOrder ==
    /\ Did("check") => (store = pre /\ sstore = spre)
    /\ (Did("get") /\ kind \in {"HashsetCache", "HashmapCache", "SizedHashmapCache"})
          => (store = pre /\ sstore = spre)
    /\ (Did("get") /\ kind = "SizedHashmapCache" /\ Len(pre) = limit) =>
          \A k \in KeySet \ StoreKeys(store), v \in ValueSet :
              LET after == SizedInsertStore(store, limit, k, v)
              IN  /\ ~Contains(after, pre[1].k)
                  /\ \A i \in 2..Len(pre) : Contains(after, pre[i].k)

C13_Witness ==
    /\ Did("get") /\ kind = "SizedHashmapCache"
    /\ Len(pre) = limit /\ limit >= 2
    /\ op.key = pre[1].k
    /\ ret = pre[1].v
    /\ store = pre

\* C14: on the base class Cache each of check, insert, get, remove, clear and
\* iter raises NotImplementedError and leaves the store as it was, and
\* construction without a store raises it from _gen_store.
C14_BaseRaises ==
    kind = "Cache" =>
        /\ status = "failed" =>
            (err = "NotImplementedError" /\ op.name = "__init__" /\ store = <<>>)
        /\ (status = "ok" /\ op.name # "__init__") =>
            /\ op.name \in {"check", "insert", "get", "remove", "clear", "iter"}
            /\ err = "NotImplementedError"
            /\ store = pre

C14_Witness ==
    /\ kind = "Cache" /\ Did("clear")
    /\ err = "NotImplementedError"
    /\ store # <<>> /\ store = pre

\* C15: SizedLRUCache.get(k) on a hit returns the value of k and leaves k at
\* the newest end, with the same keys, values and size and the other keys in
\* the same relative order; on a miss it returns None and changes nothing.
C15_LruGet ==
    (Did("get") /\ kind = "SizedLRUCache") =>
        IF Contains(pre, op.key)
        THEN /\ ret = DictGet(pre, op.key)
             /\ store[Len(store)].k = op.key
             /\ StoreKeys(store) = StoreKeys(pre)
             /\ Len(store) = Len(pre)
             /\ \A a \in StoreKeys(pre) : DictGet(store, a) = DictGet(pre, a)
             /\ \A a, b \in StoreKeys(pre) \ {op.key} :
                    Before(store, a, b) <=> Before(pre, a, b)
        ELSE ret = None /\ store = pre

C15_Witness ==
    /\ Did("get") /\ kind = "SizedLRUCache"
    /\ Len(pre) = 3 /\ op.key = pre[1].k
    /\ store = <<pre[2], pre[3], pre[1]>>

\* C16: after insert(k, v) the key is present and, in the map caches, get(k)
\* returns v; also when the bounded store was full and k was its oldest key.
C16_InsertPostcondition ==
    (Did("insert") /\ kind \in ConcreteKinds) =>
        /\ kind = "HashsetCache" => op.key \in sstore
        /\ kind \in MapKinds => Contains(store, op.key)
        /\ kind \in {"HashmapCache", "SizedHashmapCache"} =>
            HashmapGetRet(store, op.key) = op.value
        /\ kind = "SizedLRUCache" => LRUGetRet(store, op.key) = op.value

C16_Witness ==
    /\ FullInsert /\ limit >= 2
    /\ op.key = pre[1].k
    /\ op.value # None
    /\ DictGet(store, op.key) = op.value

\* C17: insert into a bounded cache that holds fewer than limit entries
\* removes nothing: the other keys keep their values and relative order, a
\* new key goes to the newest end and the size grows by one, a present key
\* leaves the size as it was.
C17_InsertBelowCapacity ==
    (Did("insert") /\ kind \in SizedKinds /\ Len(pre) < limit) =>
        /\ StoreKeys(pre) \subseteq StoreKeys(store)
        /\ \A a \in StoreKeys(pre) \ {op.key} : DictGet(store, a) = DictGet(pre, a)
        /\ \A a, b \in StoreKeys(pre) \ {op.key} :
               Before(store, a, b) <=> Before(pre, a, b)
        /\ IF Contains(pre, op.key)
           THEN Len(store) = Len(pre)
           ELSE Len(store) = Len(pre) + 1 /\ store[Len(store)].k = op.key

C17_Witness ==
    /\ Did("insert") /\ kind \in SizedKinds
    /\ Len(pre) = 1 /\ limit = 2
    /\ ~Contains(pre, op.key)
    /\ store = Append(pre, Entry(op.key, op.value))

\* C19: __init__ of a bounded cache with limit > 0 and a seed store of more
\* than limit entries succeeds and keeps every entry; while the store holds
\* more than limit entries the insert of a new key removes nothing and adds
\* one entry; an insert removes an entry only when the store holds exactly
\* limit entries, and the size comes down to limit only by remove or clear.
C19_OverCapacitySeed ==
    (kind \in SizedKinds /\ ~ctor.seedFits /\ ctor.limit > 0) =>
        /\ status = "ok"
        /\ op.name = "__init__" => (err = "none" /\ Len(store) > limit)
        /\ (op.name = "insert" /\ Len(pre) > limit /\ ~Contains(pre, op.key)) =>
            /\ StoreKeys(pre) \subseteq StoreKeys(store)
            /\ Len(store) = Len(pre) + 1
        /\ (op.name = "insert" /\ ~(StoreKeys(pre) \subseteq StoreKeys(store))) =>
            Len(pre) = limit
        /\ (Len(pre) > limit /\ Len(store) <= limit) =>
            op.name \in {"remove", "clear"}

C19_Witness ==
    /\ Did("insert") /\ kind \in SizedKinds /\ ~ctor.seedFits
    /\ Len(pre) > limit
    /\ ~Contains(pre, op.key)
    /\ Len(store) = Len(pre) + 1

\* the keys of s, oldest first, are in ascending order of stamp
OrderedByStamp(s, stamp) ==
    /\ DOMAIN stamp = StoreKeys(s)
    /\ \A i, j \in DOMAIN s : i < j => stamp[s[i].k] < stamp[s[j].k]

\* C18: beside a SizedLRUCache started empty, the order of the cache, oldest
\* first, is the order of the reference stamps, and a key that an insert
\* removes is the key that had the smallest stamp.
C18_LruReference ==
    (ref.on /\ status = "ok" /\ kind = "SizedLRUCache") =>
        /\ OrderedByStamp(store, ref.stamp)
        /\ op.name = "insert" =>
            \A r \in StoreKeys(pre) \ StoreKeys(store) :
                \A a \in StoreKeys(pre) : ref.was[r] <= ref.was[a]
====
